---- MODULE Spec2Model ----
(***************************************************************************)
(* A model of nvidia_watch.py: the job-id extractor, the notified-id store *)
(* (a JSON file), the loop of get_today_jobs over the page's elements, and *)
(* main's fetch -> load/classify -> send -> save run.                      *)
(*                                                                         *)
(* Strings that the code takes apart (URLs, job ids) are sequences of      *)
(* one-character strings, so that split and the regular expression are     *)
(* computed, not assumed.                                                  *)
(***************************************************************************)
EXTENDS Integers, Sequences, FiniteSets, TLC

VARIABLES
    store,            \* the file notified.json (STORE_FILE)
    pc,               \* pc[r]: where run r of main stands
    jobs,             \* jobs[r]: what get_today_jobs returned to run r
    loaded,           \* loaded[r]: what load_notified_ids returned to run r
    notified,         \* notified[r]: main's local set `notified`
    new_jobs,         \* new_jobs[r]: main's local list `new_jobs`
    new_ids,          \* new_ids[r]: main's local list `new_ids`
    outcome,          \* outcome[r]: how run r ended ("none" while it runs)
    sendCalls,        \* sendCalls[r]: the arguments of run r's send_email calls
    emailed,          \* emailed[r]: the postings of the email run r got out
    wrote,            \* wrote[r]: run r's save_notified_ids completed
    last,             \* the run slot started most recently
    storeBefore,      \* the file as the run started most recently found it
    everEmailed,      \* the ids of the postings of every email that got out
    url,              \* extractor alone: the URL under test
    job_id,           \* extractor alone: extract_job_id(url)
    job_id_suffixed,  \* extractor alone: extract_job_id(url + "-1?foo=bar")
    title_elements,   \* fetcher alone: the page's jobTitle elements
    posted_elements,  \* fetcher alone: the page's postedOn elements
    today_jobs,       \* fetcher alone: what get_today_jobs returned
    save_ids,         \* store alone: the set given to save_notified_ids
    save_raised,      \* store alone: how the save ended ("pending" before)
    load_result       \* store alone: what the load after the save returned

extractVars == <<url, job_id, job_id_suffixed>>
pageVars == <<title_elements, posted_elements, today_jobs>>
roundTripVars == <<save_ids, save_raised, load_result>>
aloneVars == <<extractVars, pageVars, roundTripVars>>
runVars == <<pc, jobs, loaded, notified, new_jobs, new_ids, outcome,
             sendCalls, emailed, wrote, last, storeBefore, everEmailed>>
mainVars == <<store, runVars>>
vars == <<mainVars, aloneVars>>

(***************************************************************************)
(* Bounds.                                                                 *)
(***************************************************************************)
MaxJobs == 2          \* longest list the Fetcher returns
MaxLen == 5           \* longest URL given to the extractor alone
MaxPage == 3          \* most elements of one kind on the listing page

(***************************************************************************)
(* Python values.                                                          *)
(***************************************************************************)
None == <<"None">>    \* Python's None, where a string or a match is optional

Range(s) == {s[i] : i \in 1..Len(s)}

Digits == {"0", "1", "2", "3", "4", "5", "6", "7", "8", "9"}

Min(S) == CHOOSE m \in S : \A n \in S : m <= n

(***************************************************************************)
(* extract_job_id                                                          *)
(***************************************************************************)
\* The positions where the pattern JR\d+ matches.
MatchStarts(u) ==
    {i \in 1..Len(u) : /\ i + 2 <= Len(u)
                       /\ u[i] = "J"
                       /\ u[i + 1] = "R"
                       /\ u[i + 2] \in Digits}

\* A pattern JR\d, without the +: the run ends at its first digit.
DigitRunEndFirst(u, j) == j

\* \d+ is greedy: the last position of the run of digits that starts at j.
RECURSIVE DigitRunEnd(_, _)
DigitRunEnd(u, j) ==
    IF j + 1 <= Len(u) /\ u[j + 1] \in Digits THEN DigitRunEnd(u, j + 1) ELSE j

\* re.search(r"(JR\d+)", url): group 1 of the leftmost match, or None.
re_search(u) ==
    IF MatchStarts(u) = {}
    THEN None
    ELSE LET i == Min(MatchStarts(u))
         IN  SubSeq(u, i, DigitRunEnd(u, i + 2))

Positions(s, c) == {i \in 1..Len(s) : s[i] = c}

\* s.split(c)[-1]: what follows the last c, all of s when it holds no c.
SplitLast(s, c) ==
    IF Positions(s, c) = {}
    THEN s
    ELSE LET i == CHOOSE k \in Positions(s, c) : \A n \in Positions(s, c) : n <= k
         IN  SubSeq(s, i + 1, Len(s))

\* s.split(c)[0]: what precedes the first c, all of s when it holds no c.
SplitFirst(s, c) ==
    IF Positions(s, c) = {}
    THEN s
    ELSE SubSeq(s, 1, Min(Positions(s, c)) - 1)

\* A fallback that forgets to drop the "-" suffix.
FallbackKeepsSuffix(u) == SplitFirst(SplitLast(u, "_"), "?")

\* The fallback of extract_job_id.
Fallback(u) == SplitFirst(SplitFirst(SplitLast(u, "_"), "?"), "-")

extract_job_id(u) ==
    IF re_search(u) # None THEN re_search(u) ELSE Fallback(u)

(***************************************************************************)
(* The store file and load_notified_ids / save_notified_ids                *)
(***************************************************************************)
\* A state of notified.json.  kind says what the file holds:
\*   "absent"     no such file
\*   "malformed"  text that is not JSON (truncated, empty)
\*   "notutf8"    bytes that are not UTF-8
\*   "nonobject"  JSON that is not an object (a list, a number, null)
\*   "nokey"      a JSON object without the field "notified"
\*   "badvalue"   a JSON object whose "notified" is a number or null
\*   "object"     a JSON object whose "notified" is the list `list`
\* readable is FALSE when opening the file for reading raises OSError.
File(k, l, rd) == [kind |-> k, list |-> l, readable |-> rd]

AbsentFile == File("absent", <<>>, TRUE)

TruncatedFile(f) ==
    File("malformed", <<>>, IF f.kind = "absent" THEN TRUE ELSE f.readable)

\* A load that never looks at the file.
LoadIgnoresFile(f) == [raised |-> "none", ids |-> {}]

\* load_notified_ids: the set returned, or the exception that escapes.
load_notified_ids(f) ==
    CASE f.kind = "absent"    -> [raised |-> "none", ids |-> {}]
      [] ~f.readable          -> [raised |-> "none", ids |-> {}]
      [] f.kind = "malformed" -> [raised |-> "none", ids |-> {}]
      [] f.kind = "notutf8"   -> [raised |-> "UnicodeDecodeError", ids |-> {}]
      [] f.kind = "nonobject" -> [raised |-> "AttributeError", ids |-> {}]
      [] f.kind = "nokey"     -> [raised |-> "none", ids |-> {}]
      [] f.kind = "badvalue"  -> [raised |-> "TypeError", ids |-> {}]
      [] OTHER                -> [raised |-> "none", ids |-> Range(f.list)]

\* list(ids): the elements of a set in an order the caller cannot choose.
ListsOf(S) ==
    {l \in [1..Cardinality(S) -> S] : \A i, j \in 1..Cardinality(S) :
                                          l[i] = l[j] => i = j}

\* A save that adds to the list on file instead of replacing it.
OverwriteAppends(f, l) ==
    File("object",
         IF f.kind = "object"
         THEN f.list \o SelectSeq(l, LAMBDA x : x \notin Range(f.list))
         ELSE l,
         IF f.kind = "absent" THEN TRUE ELSE f.readable)

\* The file a completed save leaves: the whole file is replaced.
Overwrite(f, l) ==
    File("object", l, IF f.kind = "absent" THEN TRUE ELSE f.readable)

\* save_notified_ids: every way the call can end.  open() may raise and
\* leave the file as it was; open(..., "w") truncates, so a write that
\* raises later leaves a truncated file; otherwise the file holds the list.
save_notified_ids(f, ids) ==
    {[raised |-> "OSError", file |-> f],
     [raised |-> "OSError", file |-> TruncatedFile(f)]}
    \cup {[raised |-> "none", file |-> Overwrite(f, l)] : l \in ListsOf(ids)}

(***************************************************************************)
(* The postings of the model                                               *)
(***************************************************************************)
U1 == <<"x", "_", "J", "R", "1">>
U1dup == <<"x", "_", "J", "R", "1", "-", "1">>
U2 == <<"x", "_", "J", "R", "2", "?", "q">>

JR1 == <<"J", "R", "1">>
JR2 == <<"J", "R", "2">>

Postings ==
    {[title |-> "A", url |-> U1, posted |-> "Posted Today"],
     [title |-> "A", url |-> U1dup, posted |-> "Posted Today"],
     [title |-> "B", url |-> U2, posted |-> "Today"]}

\* What get_today_jobs can return: lists of distinct postings.
FetchResults ==
    UNION {{l \in [1..n -> Postings] : \A i, j \in 1..n : l[i] = l[j] => i = j}
           : n \in 0..MaxJobs}

\* The files a run can find: any kind, and lists of ids in any order.
StoreFiles ==
    {AbsentFile}
    \cup {File(k, <<>>, TRUE) :
            k \in {"malformed", "notutf8", "nonobject", "nokey", "badvalue"}}
    \cup {File("object", l, rd) :
            l \in UNION {ListsOf(S) : S \in SUBSET {JR1, JR2}}, rd \in BOOLEAN}

(***************************************************************************)
(* main, one run per slot; a run is four steps                             *)
(***************************************************************************)
Runs == {1, 2}

Other(r) == 3 - r

Ended(r) == pc[r] \in {"done", "failed"}

Active(r) == pc[r] \in {"fetched", "classified", "sent"}

\* main, lines 135-136: the id of a posting (a missing href counts as "").
JobIdOf(job) == extract_job_id(IF job.url = None THEN <<>> ELSE job.url)

\* A loop that also skips a posting whose id it has already collected.
RECURSIVE ClassifyOncePerId(_, _, _, _, _)
ClassifyOncePerId(js, known, i, nj, ni) ==
    IF i > Len(js)
    THEN [new_jobs |-> nj, new_ids |-> ni]
    ELSE IF JobIdOf(js[i]) \notin known /\ JobIdOf(js[i]) \notin Range(ni)
         THEN ClassifyOncePerId(js, known, i + 1,
                                Append(nj, js[i]), Append(ni, JobIdOf(js[i])))
         ELSE ClassifyOncePerId(js, known, i + 1, nj, ni)

\* A loop that looks the posting's URL up in the set of ids.
RECURSIVE ClassifyByUrl(_, _, _, _, _)
ClassifyByUrl(js, known, i, nj, ni) ==
    IF i > Len(js)
    THEN [new_jobs |-> nj, new_ids |-> ni]
    ELSE IF js[i].url \notin known
         THEN ClassifyByUrl(js, known, i + 1,
                            Append(nj, js[i]), Append(ni, JobIdOf(js[i])))
         ELSE ClassifyByUrl(js, known, i + 1, nj, ni)

\* main, lines 131-142: the loop over jobs from posting i on, given what
\* it has collected so far.
RECURSIVE Classify(_, _, _, _, _)
Classify(js, known, i, nj, ni) ==
    IF i > Len(js)
    THEN [new_jobs |-> nj, new_ids |-> ni]
    ELSE IF JobIdOf(js[i]) \notin known
         THEN Classify(js, known, i + 1,
                       Append(nj, js[i]), Append(ni, JobIdOf(js[i])))
         ELSE Classify(js, known, i + 1, nj, ni)

\* How send_email can end: it completes, or os.environ raises KeyError
\* (MAIL_USER or MAIL_PASS unset), or login or send_message raises.
SendResults == {"ok", "KeyError", "SMTPAuthenticationError", "SMTPException"}

\* main, lines 122-127: a new run starts in slot r; get_today_jobs returns
\* a list or raises.
MainFetch(r) ==
    /\ ~Active(r)
    /\ last' = r
    /\ storeBefore' = store
    /\ loaded' = [loaded EXCEPT ![r] = {}]
    /\ notified' = [notified EXCEPT ![r] = {}]
    /\ new_jobs' = [new_jobs EXCEPT ![r] = <<>>]
    /\ new_ids' = [new_ids EXCEPT ![r] = <<>>]
    /\ sendCalls' = [sendCalls EXCEPT ![r] = <<>>]
    /\ emailed' = [emailed EXCEPT ![r] = <<>>]
    /\ wrote' = [wrote EXCEPT ![r] = FALSE]
    /\ \/ \E js \in FetchResults :
            /\ jobs' = [jobs EXCEPT ![r] = js]
            /\ IF js = <<>>
               THEN /\ pc' = [pc EXCEPT ![r] = "done"]
                    /\ outcome' = [outcome EXCEPT ![r] = "no_jobs"]
               ELSE /\ pc' = [pc EXCEPT ![r] = "fetched"]
                    /\ outcome' = [outcome EXCEPT ![r] = "none"]
       \/ /\ jobs' = [jobs EXCEPT ![r] = <<>>]
          /\ pc' = [pc EXCEPT ![r] = "failed"]
          /\ outcome' = [outcome EXCEPT ![r] = "fetch_error"]
    /\ UNCHANGED <<store, everEmailed, aloneVars>>

\* A main that records the new ids as soon as it has found them, before
\* the email is sent.
MainClassifySavesEarly(r) ==
    /\ pc[r] = "fetched"
    /\ LET found == load_notified_ids(store)
           split == Classify(jobs[r], found.ids, 1, <<>>, <<>>)
       IN  IF found.raised # "none"
           THEN /\ pc' = [pc EXCEPT ![r] = "failed"]
                /\ outcome' = [outcome EXCEPT ![r] = "load_error"]
                /\ UNCHANGED <<store, loaded, notified, new_jobs, new_ids>>
           ELSE /\ loaded' = [loaded EXCEPT ![r] = found.ids]
                /\ notified' = [notified EXCEPT ![r] = found.ids]
                /\ new_jobs' = [new_jobs EXCEPT ![r] = split.new_jobs]
                /\ new_ids' = [new_ids EXCEPT ![r] = split.new_ids]
                /\ IF split.new_jobs = <<>>
                   THEN /\ pc' = [pc EXCEPT ![r] = "done"]
                        /\ outcome' = [outcome EXCEPT ![r] = "no_new_jobs"]
                        /\ UNCHANGED store
                   ELSE /\ pc' = [pc EXCEPT ![r] = "classified"]
                        /\ \E l \in ListsOf(found.ids \cup Range(split.new_ids)) :
                              store' = Overwrite(store, l)
                        /\ UNCHANGED outcome
    /\ UNCHANGED <<jobs, sendCalls, emailed, wrote, last, storeBefore,
                   everEmailed, aloneVars>>

\* A main that exits as a failure when it finds nothing new.
MainClassifyFailsWhenNothingNew(r) ==
    /\ pc[r] = "fetched"
    /\ LET found == load_notified_ids(store)
           split == Classify(jobs[r], found.ids, 1, <<>>, <<>>)
       IN  IF found.raised # "none"
           THEN /\ pc' = [pc EXCEPT ![r] = "failed"]
                /\ outcome' = [outcome EXCEPT ![r] = "load_error"]
                /\ UNCHANGED <<loaded, notified, new_jobs, new_ids>>
           ELSE /\ loaded' = [loaded EXCEPT ![r] = found.ids]
                /\ notified' = [notified EXCEPT ![r] = found.ids]
                /\ new_jobs' = [new_jobs EXCEPT ![r] = split.new_jobs]
                /\ new_ids' = [new_ids EXCEPT ![r] = split.new_ids]
                /\ IF split.new_jobs = <<>>
                   THEN /\ pc' = [pc EXCEPT ![r] = "failed"]
                        /\ outcome' = [outcome EXCEPT ![r] = "no_new_jobs"]
                   ELSE /\ pc' = [pc EXCEPT ![r] = "classified"]
                        /\ UNCHANGED outcome
    /\ UNCHANGED <<store, jobs, sendCalls, emailed, wrote, last, storeBefore,
                   everEmailed, aloneVars>>

\* main, lines 129-146: load the store, split the postings, return when
\* none is new.
MainClassify(r) ==
    /\ pc[r] = "fetched"
    /\ LET found == load_notified_ids(store)
           split == Classify(jobs[r], found.ids, 1, <<>>, <<>>)
       IN  IF found.raised # "none"
           THEN /\ pc' = [pc EXCEPT ![r] = "failed"]
                /\ outcome' = [outcome EXCEPT ![r] = "load_error"]
                /\ UNCHANGED <<loaded, notified, new_jobs, new_ids>>
           ELSE /\ loaded' = [loaded EXCEPT ![r] = found.ids]
                /\ notified' = [notified EXCEPT ![r] = found.ids]
                /\ new_jobs' = [new_jobs EXCEPT ![r] = split.new_jobs]
                /\ new_ids' = [new_ids EXCEPT ![r] = split.new_ids]
                /\ IF split.new_jobs = <<>>
                   THEN /\ pc' = [pc EXCEPT ![r] = "done"]
                        /\ outcome' = [outcome EXCEPT ![r] = "no_new_jobs"]
                   ELSE /\ pc' = [pc EXCEPT ![r] = "classified"]
                        /\ UNCHANGED outcome
    /\ UNCHANGED <<store, jobs, sendCalls, emailed, wrote, last, storeBefore,
                   everEmailed, aloneVars>>

\* A main that catches the error of send_email and goes on to the save.
MainSendSwallowsError(r) ==
    /\ pc[r] = "classified"
    /\ sendCalls' = [sendCalls EXCEPT ![r] = Append(@, new_jobs[r])]
    /\ \E res \in SendResults :
          /\ emailed' = [emailed EXCEPT ![r] =
                            IF res = "ok" THEN new_jobs[r] ELSE <<>>]
          /\ everEmailed' = everEmailed \cup
                (IF res = "ok"
                 THEN {JobIdOf(new_jobs[r][i]) : i \in 1..Len(new_jobs[r])}
                 ELSE {})
          /\ pc' = [pc EXCEPT ![r] = "sent"]
          /\ UNCHANGED outcome
    /\ UNCHANGED <<store, jobs, loaded, notified, new_jobs, new_ids, wrote,
                   last, storeBefore, aloneVars>>

\* A main that writes the store before it calls send_email.
MainSendSavesFirst(r) ==
    /\ pc[r] = "classified"
    /\ sendCalls' = [sendCalls EXCEPT ![r] = Append(@, new_jobs[r])]
    /\ \E l \in ListsOf(notified[r] \cup Range(new_ids[r])) :
          store' = Overwrite(store, l)
    /\ \E res \in SendResults :
          IF res = "ok"
          THEN /\ emailed' = [emailed EXCEPT ![r] = new_jobs[r]]
               /\ everEmailed' = everEmailed \cup
                     {JobIdOf(new_jobs[r][i]) : i \in 1..Len(new_jobs[r])}
               /\ pc' = [pc EXCEPT ![r] = "sent"]
               /\ UNCHANGED outcome
          ELSE /\ pc' = [pc EXCEPT ![r] = "failed"]
               /\ outcome' = [outcome EXCEPT ![r] = "send_error"]
               /\ UNCHANGED <<emailed, everEmailed>>
    /\ UNCHANGED <<jobs, loaded, notified, new_jobs, new_ids, wrote,
                   last, storeBefore, aloneVars>>

\* main, line 149: send_email(new_jobs) completes or raises.
MainSend(r) ==
    /\ pc[r] = "classified"
    /\ sendCalls' = [sendCalls EXCEPT ![r] = Append(@, new_jobs[r])]
    /\ \E res \in SendResults :
          IF res = "ok"
          THEN /\ emailed' = [emailed EXCEPT ![r] = new_jobs[r]]
               /\ everEmailed' = everEmailed \cup
                     {JobIdOf(new_jobs[r][i]) : i \in 1..Len(new_jobs[r])}
               /\ pc' = [pc EXCEPT ![r] = "sent"]
               /\ UNCHANGED outcome
          ELSE /\ pc' = [pc EXCEPT ![r] = "failed"]
               /\ outcome' = [outcome EXCEPT ![r] = "send_error"]
               /\ UNCHANGED <<emailed, everEmailed>>
    /\ UNCHANGED <<store, jobs, loaded, notified, new_jobs, new_ids, wrote,
                   last, storeBefore, aloneVars>>

\* A main that saves the new ids alone, without the set it loaded.
MainSaveOnlyNew(r) ==
    /\ pc[r] = "sent"
    /\ notified' = [notified EXCEPT ![r] = @ \cup Range(new_ids[r])]
    /\ \E res \in save_notified_ids(store, Range(new_ids[r])) :
          /\ store' = res.file
          /\ IF res.raised = "none"
             THEN /\ wrote' = [wrote EXCEPT ![r] = TRUE]
                  /\ pc' = [pc EXCEPT ![r] = "done"]
                  /\ outcome' = [outcome EXCEPT ![r] = "notified"]
             ELSE /\ pc' = [pc EXCEPT ![r] = "failed"]
                  /\ outcome' = [outcome EXCEPT ![r] = "save_error"]
                  /\ UNCHANGED wrote
    /\ UNCHANGED <<jobs, loaded, new_jobs, new_ids, sendCalls, emailed, last,
                   storeBefore, everEmailed, aloneVars>>

\* main, lines 152-154: notified.update(new_ids); save_notified_ids(notified).
MainSave(r) ==
    /\ pc[r] = "sent"
    /\ notified' = [notified EXCEPT ![r] = @ \cup Range(new_ids[r])]
    /\ \E res \in save_notified_ids(store, notified[r] \cup Range(new_ids[r])) :
          /\ store' = res.file
          /\ IF res.raised = "none"
             THEN /\ wrote' = [wrote EXCEPT ![r] = TRUE]
                  /\ pc' = [pc EXCEPT ![r] = "done"]
                  /\ outcome' = [outcome EXCEPT ![r] = "notified"]
             ELSE /\ pc' = [pc EXCEPT ![r] = "failed"]
                  /\ outcome' = [outcome EXCEPT ![r] = "save_error"]
                  /\ UNCHANGED wrote
    /\ UNCHANGED <<jobs, loaded, new_jobs, new_ids, sendCalls, emailed, last,
                   storeBefore, everEmailed, aloneVars>>

\* Runs one at a time (an external scheduler starts main again only after
\* the run before it has ended); the two slots take turns, so that the
\* other slot holds the run before.
SeqFetch(r) == r # last /\ ~Active(last) /\ MainFetch(r)

RunsIdle ==
    /\ pc = [r \in Runs |-> "idle"]
    /\ jobs = [r \in Runs |-> <<>>]
    /\ loaded = [r \in Runs |-> {}]
    /\ notified = [r \in Runs |-> {}]
    /\ new_jobs = [r \in Runs |-> <<>>]
    /\ new_ids = [r \in Runs |-> <<>>]
    /\ outcome = [r \in Runs |-> "none"]
    /\ sendCalls = [r \in Runs |-> <<>>]
    /\ emailed = [r \in Runs |-> <<>>]
    /\ wrote = [r \in Runs |-> FALSE]
    /\ last = 2
    /\ storeBefore = store
    /\ everEmailed = {}

ExtractIdle == url = <<>> /\ job_id = None /\ job_id_suffixed = None

NotReturned == [returned |-> FALSE, jobs |-> <<>>]

PageIdle ==
    title_elements = <<>> /\ posted_elements = <<>> /\ today_jobs = NotReturned

NotLoaded == [returned |-> FALSE, raised |-> "none", ids |-> {}]

RoundTripIdle ==
    save_ids = {} /\ save_raised = "pending" /\ load_result = NotLoaded

AloneIdle == ExtractIdle /\ PageIdle /\ RoundTripIdle

Init == store \in StoreFiles /\ RunsIdle /\ AloneIdle

Next ==
    \E r \in Runs : SeqFetch(r) \/ MainClassify(r) \/ MainSend(r) \/ MainSave(r)

Spec == Init /\ [][Next]_vars

\* Two runs of main over the same file, each started once, their steps
\* interleaved in every order.
ConcFetch(r) == pc[r] = "idle" /\ MainFetch(r)

ConcNext ==
    \E r \in Runs : ConcFetch(r) \/ MainClassify(r) \/ MainSend(r) \/ MainSave(r)

ConcSpec == Init /\ [][ConcNext]_vars

(***************************************************************************)
(* The extractor on its own: every URL of up to MaxLen characters          *)
(***************************************************************************)
UrlChars == {"J", "R", "1", "a", "_", "-", "?"}

\* Two longer URLs without a job-reference token.
SeniorEngineerUrl ==
    <<"x", "_", "s", "e", "n", "i", "o", "r", "-", "e", "n", "g", "i",
    "n", "e", "e", "r", "-", "2">>

SeniorManagerUrl ==
    <<"x", "_", "s", "e", "n", "i", "o", "r", "-", "m", "a", "n", "a",
    "g", "e", "r", "-", "2">>

Urls ==
    UNION {[1..n -> UrlChars] : n \in 0..MaxLen}
    \cup {SeniorEngineerUrl, SeniorManagerUrl}

\* The text the spec's property appends: "-1?foo=bar".
DupSuffix == <<"-", "1", "?", "f", "o", "o", "=", "b", "a", "r">>

ExtractInit ==
    /\ store = AbsentFile
    /\ RunsIdle
    /\ url \in Urls
    /\ job_id = None
    /\ job_id_suffixed = None
    /\ PageIdle
    /\ RoundTripIdle

ExtractStep ==
    /\ job_id = None
    /\ job_id' = extract_job_id(url)
    /\ job_id_suffixed' = extract_job_id(url \o DupSuffix)
    /\ UNCHANGED <<mainVars, url, pageVars, roundTripVars>>

ExtractNext == ExtractStep

ExtractSpec == ExtractInit /\ [][ExtractNext]_vars

(***************************************************************************)
(* get_today_jobs on its own: the loop over the page's elements            *)
(***************************************************************************)
UpperCase ==
    <<"A", "B", "C", "D", "E", "F", "G", "H", "I", "J", "K", "L", "M",
      "N", "O", "P", "Q", "R", "S", "T", "U", "V", "W", "X", "Y", "Z">>

LowerCase ==
    <<"a", "b", "c", "d", "e", "f", "g", "h", "i", "j", "k", "l", "m",
      "n", "o", "p", "q", "r", "s", "t", "u", "v", "w", "x", "y", "z">>

\* str.lower()
LowerChar(c) ==
    IF \E i \in 1..Len(UpperCase) : UpperCase[i] = c
    THEN LowerCase[CHOOSE i \in 1..Len(UpperCase) : UpperCase[i] = c]
    ELSE c

str_lower(s) == [i \in 1..Len(s) |-> LowerChar(s[i])]

WhiteSpace == {" ", "\n", "\t"}

\* str.strip()
RECURSIVE str_strip(_)
str_strip(s) ==
    IF s = <<>> THEN s
    ELSE IF Head(s) \in WhiteSpace THEN str_strip(Tail(s))
    ELSE IF s[Len(s)] \in WhiteSpace THEN str_strip(SubSeq(s, 1, Len(s) - 1))
    ELSE s

\* sub in s
str_in(sub, s) ==
    \E i \in 1..(Len(s) - Len(sub) + 1) : SubSeq(s, i, i + Len(sub) - 1) = sub

TodayWord == <<"t", "o", "d", "a", "y">>

\* The dict get_today_jobs builds from a title element and its label.
JobDict(t, posted_txt) ==
    [title |-> str_strip(t.text), url |-> t.href, posted |-> posted_txt]

\* A loop that skips a label without "today" and goes on (continue, not
\* break).
RECURSIVE TodayLoopSkips(_, _, _, _)
TodayLoopSkips(ts, ps, i, js) ==
    IF i > Len(ts) \/ i > Len(ps)
    THEN js
    ELSE LET posted_txt == str_strip(ps[i])
         IN  IF str_in(TodayWord, str_lower(posted_txt))
             THEN TodayLoopSkips(ts, ps, i + 1,
                                 Append(js, JobDict(ts[i], posted_txt)))
             ELSE TodayLoopSkips(ts, ps, i + 1, js)

\* get_today_jobs, lines 71-87: the loop over zip(title_elements,
\* posted_elements) from pair i on, given the jobs collected so far.
RECURSIVE TodayLoop(_, _, _, _)
TodayLoop(ts, ps, i, js) ==
    IF i > Len(ts) \/ i > Len(ps)
    THEN js
    ELSE LET posted_txt == str_strip(ps[i])
         IN  IF str_in(TodayWord, str_lower(posted_txt))
             THEN TodayLoop(ts, ps, i + 1,
                            Append(js, JobDict(ts[i], posted_txt)))
             ELSE js

get_today_jobs(ts, ps) == TodayLoop(ts, ps, 1, <<>>)

\* The elements of the pages: two titles (one with blanks around its
\* text, one without href) and four labels.
TitleElements ==
    {[text |-> <<" ", "A", " ">>, href |-> U1],
     [text |-> <<"B">>, href |-> None]}

LabelToday == <<"T", "o", "d", "a", "y">>
LabelPostedTODAY == <<" ", "P", "o", "s", "t", "e", "d", " ", "T", "O", "D", "A", "Y", "\n">>
LabelYesterday == <<"Y", "e", "s", "t", "e", "r", "d", "a", "y">>
LabelToDay == <<"T", "o", " ", "d", "a", "y">>

Labels == {LabelToday, LabelPostedTODAY, LabelYesterday, LabelToDay}

\* wait_for_selector (line 66) has seen a title: there is at least one.
FetchInit ==
    /\ store = AbsentFile
    /\ RunsIdle
    /\ ExtractIdle
    /\ RoundTripIdle
    /\ title_elements \in UNION {[1..n -> TitleElements] : n \in 1..MaxPage}
    /\ posted_elements \in UNION {[1..n -> Labels] : n \in 0..MaxPage}
    /\ today_jobs = NotReturned

FetchStep ==
    /\ ~today_jobs.returned
    /\ today_jobs' = [returned |-> TRUE,
                      jobs |-> get_today_jobs(title_elements, posted_elements)]
    /\ UNCHANGED <<mainVars, extractVars, title_elements, posted_elements,
                   roundTripVars>>

FetchNext == FetchStep

FetchSpec == FetchInit /\ [][FetchNext]_vars

\* Runs started at any time, over a store that starts without ids: a slot
\* starts a run whenever it is not in one, whatever the other slot does.
EmptyStores == {AbsentFile, File("object", <<>>, TRUE)}

FreshInit == store \in EmptyStores /\ RunsIdle /\ AloneIdle

FreshNext ==
    \E r \in Runs : MainFetch(r) \/ MainClassify(r) \/ MainSend(r) \/ MainSave(r)

FreshSpec == FreshInit /\ [][FreshNext]_vars

(***************************************************************************)
(* The store on its own: one save, then one load                           *)
(***************************************************************************)
\* The ids main can hold: tokens, and "" for a posting without href.
IdPool == {JR1, JR2, <<>>}

RoundTripInit ==
    /\ store \in StoreFiles
    /\ RunsIdle
    /\ ExtractIdle
    /\ PageIdle
    /\ save_ids \in SUBSET IdPool
    /\ save_raised = "pending"
    /\ load_result = NotLoaded

RoundTripSave ==
    /\ save_raised = "pending"
    /\ \E o \in save_notified_ids(store, save_ids) :
          /\ store' = o.file
          /\ save_raised' = o.raised
    /\ UNCHANGED <<runVars, extractVars, pageVars, save_ids, load_result>>

RoundTripLoad ==
    /\ save_raised # "pending"
    /\ ~load_result.returned
    /\ load_result' = [returned |-> TRUE,
                       raised |-> load_notified_ids(store).raised,
                       ids |-> load_notified_ids(store).ids]
    /\ UNCHANGED <<mainVars, extractVars, pageVars, save_ids, save_raised>>

RoundTripNext == RoundTripSave \/ RoundTripLoad

RoundTripSpec == RoundTripInit /\ [][RoundTripNext]_vars

(***************************************************************************)
(* Vocabulary of the properties                                            *)
(***************************************************************************)
\* The ids the file holds (whether or not it can be read back).
PersistedIds(f) == IF f.kind = "object" THEN Range(f.list) ELSE {}

\* The postings of js whose id is not in known, in the order of js.
NewOf(js, known) == SelectSeq(js, LAMBDA j : JobIdOf(j) \notin known)

IdsOf(js) == {JobIdOf(js[i]) : i \in 1..Len(js)}

\* send_email completed in run r (for a list that is never empty).
SendCompleted(r) == emailed[r] # <<>>

\* Run r has got past load_notified_ids.
HasLoaded(r) ==
    \/ pc[r] \in {"classified", "sent"}
    \/ outcome[r] \in {"no_new_jobs", "send_error", "save_error", "notified"}

\* Run r has got past its call of send_email.
HasCalledSend(r) ==
    pc[r] = "sent" \/ outcome[r] \in {"send_error", "save_error", "notified"}

\* Under Spec the slots take turns: the run before the one started most
\* recently is in the other slot.
Cur == last
Prev == Other(last)

(***************************************************************************)
(* C1                                                                      *)
(***************************************************************************)
\* C1 (as stated): in every run that has ended, the store file has been
\* written if and only if send_email completed in that run for a
\* non-empty list of new postings, and a written store implies a
\* completed send.
C1_StoreWrittenIffSent ==
    \A r \in Runs :
        /\ wrote[r] => SendCompleted(r)
        /\ Ended(r) => (wrote[r] <=> SendCompleted(r))

\* C1 (amended): the store file is touched by a run only after send_email
\* completed in that run for a non-empty list; and a run that has ended
\* without save_notified_ids raising has written the store if and only if
\* its send completed.
C1_StoreWrittenOnlyAfterSend ==
    \A r \in Runs :
        /\ wrote[r] => SendCompleted(r) /\ Len(sendCalls[r]) = 1
        /\ (r = Cur /\ store # storeBefore) => SendCompleted(r)
        /\ (Ended(r) /\ outcome[r] # "save_error")
              => (wrote[r] <=> SendCompleted(r))

\* A run whose send completed and whose store write completed.
C1_Witness ==
    \E r \in Runs : outcome[r] = "notified" /\ wrote[r] /\ SendCompleted(r)
                    /\ r = Cur /\ store # storeBefore

(***************************************************************************)
(* C2                                                                      *)
(***************************************************************************)
\* C2: a run whose send_email raised has failed and left the file as it
\* found it (the set that loads from it is still the set the run loaded);
\* the next run, given the same Fetcher result, finds the same postings
\* new and calls send_email with them.
C2_FailedSendIsRetried ==
    /\ \A r \in Runs :
          outcome[r] = "send_error"
             => /\ pc[r] = "failed"
                /\ ~wrote[r]
                /\ emailed[r] = <<>>
                /\ r = Cur => /\ store = storeBefore
                              /\ load_notified_ids(store).raised = "none"
                              /\ load_notified_ids(store).ids = loaded[r]
    /\ (outcome[Prev] = "send_error" /\ jobs[Cur] = jobs[Prev]
        /\ pc[Cur] # "fetched")
          => /\ HasLoaded(Cur)
             /\ outcome[Cur] # "no_new_jobs"
             /\ new_jobs[Cur] = new_jobs[Prev]
             /\ HasCalledSend(Cur) => sendCalls[Cur] = <<new_jobs[Prev]>>

\* The run after a failed send has called send_email with the same list.
C2_Witness ==
    /\ outcome[Prev] = "send_error"
    /\ jobs[Cur] = jobs[Prev]
    /\ HasCalledSend(Cur)
    /\ sendCalls[Cur] = sendCalls[Prev]
    /\ Len(new_jobs[Prev]) = 2

(***************************************************************************)
(* C3                                                                      *)
(***************************************************************************)
\* C3 (as stated): when the run before had its send complete and this run
\* got the same Fetcher result, this run does not call send_email.
C3_SecondRunSendsNothing ==
    (SendCompleted(Prev) /\ jobs[Cur] = jobs[Prev])
        => sendCalls[Cur] = <<>> /\ pc[Cur] # "classified"

\* C3 (amended): when the run before ended with its send and its store
\* write both completed, this run got the same Fetcher result, and the
\* file can be read back, this run finds nothing new and does not call
\* send_email.
C3_Idempotent ==
    (outcome[Prev] = "notified" /\ jobs[Cur] = jobs[Prev] /\ store.readable)
        => /\ sendCalls[Cur] = <<>>
           /\ emailed[Cur] = <<>>
           /\ pc[Cur] \in {"fetched", "done"}
           /\ pc[Cur] = "done" => outcome[Cur] = "no_new_jobs"

\* The second of two runs with the same postings has ended without email.
C3_Witness ==
    /\ outcome[Prev] = "notified"
    /\ jobs[Cur] = jobs[Prev]
    /\ store.readable
    /\ outcome[Cur] = "no_new_jobs"
    /\ sendCalls[Cur] = <<>>

(***************************************************************************)
(* C4                                                                      *)
(***************************************************************************)
\* C4 (as stated): a run that loaded the store and was given at least one
\* posting whose id the loaded set lacks ends having called send_email
\* once, with exactly those postings in Fetcher order, and leaves the file
\* holding the loaded set united with their ids.
C4_NotifyAndRecord ==
    \A r \in Runs :
        (HasLoaded(r) /\ Ended(r) /\ NewOf(jobs[r], loaded[r]) # <<>>)
           => /\ sendCalls[r] = <<NewOf(jobs[r], loaded[r])>>
              /\ r = Cur => PersistedIds(store) =
                               loaded[r] \cup IdsOf(NewOf(jobs[r], loaded[r]))

\* C4 (amended): such a run calls send_email once, with exactly those
\* postings in Fetcher order; and when send_email and the store write both
\* complete, the file afterwards holds the loaded set united with their
\* ids.
C4_NotifyOnceAndRecordOnSuccess ==
    \A r \in Runs :
        (HasLoaded(r) /\ NewOf(jobs[r], loaded[r]) # <<>>)
           => /\ new_jobs[r] = NewOf(jobs[r], loaded[r])
              /\ outcome[r] # "no_new_jobs"
              /\ Len(sendCalls[r]) <= 1
              /\ Ended(r) => HasCalledSend(r)
              /\ HasCalledSend(r)
                    => sendCalls[r] = <<NewOf(jobs[r], loaded[r])>>
              /\ SendCompleted(r) => emailed[r] = NewOf(jobs[r], loaded[r])
              /\ (outcome[r] = "notified" /\ r = Cur)
                    => PersistedIds(store) =
                          loaded[r] \cup IdsOf(NewOf(jobs[r], loaded[r]))

\* Scenario B: postings JR1 and JR2, a store holding JR1, one email with
\* the JR2 posting alone, the store afterwards JR1 and JR2.
C4_Witness ==
    \E r \in Runs :
        /\ r = Cur
        /\ outcome[r] = "notified"
        /\ loaded[r] = {JR1}
        /\ IdsOf(jobs[r]) = {JR1, JR2}
        /\ Len(emailed[r]) = 1
        /\ IdsOf(emailed[r]) = {JR2}
        /\ PersistedIds(store) = {JR1, JR2}

(***************************************************************************)
(* C5                                                                      *)
(***************************************************************************)
\* C5: a run that was given no posting, or only postings whose ids the
\* loaded set holds, has ended successfully without calling send_email
\* and without touching the file.
C5_NoNewNoEffect ==
    \A r \in Runs :
        (/\ pc[r] # "idle"
         /\ outcome[r] # "fetch_error"
         /\ \/ jobs[r] = <<>>
            \/ HasLoaded(r) /\ IdsOf(jobs[r]) \subseteq loaded[r])
           => /\ pc[r] = "done"
              /\ outcome[r] \in {"no_jobs", "no_new_jobs"}
              /\ sendCalls[r] = <<>>
              /\ emailed[r] = <<>>
              /\ ~wrote[r]
              /\ r = Cur => store = storeBefore

\* Scenario C: every posting given is already in the store.
C5_Witness ==
    \E r \in Runs :
        /\ r = Cur
        /\ outcome[r] = "no_new_jobs"
        /\ Len(jobs[r]) = 2
        /\ IdsOf(jobs[r]) \subseteq loaded[r]
        /\ store = storeBefore

(***************************************************************************)
(* C6                                                                      *)
(***************************************************************************)
\* C6: the ids the file holds after a run include every id it held before
\* the run.
C6_StoreOnlyGrows ==
    Ended(Cur) => PersistedIds(storeBefore) \subseteq PersistedIds(store)

(***************************************************************************)
(* C7                                                                      *)
(***************************************************************************)
\* C7: whatever the file holds, load_notified_ids returns to its caller
\* (no run fails in it), and returns the empty set unless the file is an
\* object with a list under "notified".
C7_LoadFailsSoft ==
    \A r \in Runs :
        /\ outcome[r] # "load_error"
        /\ (r = Cur /\ HasLoaded(r) /\ storeBefore.kind # "object")
              => loaded[r] = {}

(***************************************************************************)
(* C8                                                                      *)
(***************************************************************************)
\* C8: a run whose store write raised after its send completed has failed
\* and none of its new ids loads from the file; the next run, given the
\* same Fetcher result, finds those postings new again and calls
\* send_email with them.
C8_FailedSaveIsRenotified ==
    /\ \A r \in Runs :
          outcome[r] = "save_error"
             => /\ pc[r] = "failed"
                /\ SendCompleted(r)
                /\ ~wrote[r]
                /\ r = Cur => /\ load_notified_ids(store).raised = "none"
                              /\ load_notified_ids(store).ids
                                    \cap Range(new_ids[r]) = {}
    /\ (outcome[Prev] = "save_error" /\ jobs[Cur] = jobs[Prev]
        /\ pc[Cur] # "fetched")
          => /\ HasLoaded(Cur)
             /\ outcome[Cur] # "no_new_jobs"
             /\ Range(new_jobs[Prev]) \subseteq Range(new_jobs[Cur])
             /\ HasCalledSend(Cur) => sendCalls[Cur] = <<new_jobs[Cur]>>

\* The run after a failed save has emailed the same postings a second time.
C8_Witness ==
    /\ outcome[Prev] = "save_error"
    /\ jobs[Cur] = jobs[Prev]
    /\ SendCompleted(Cur)
    /\ Range(emailed[Prev]) \subseteq Range(emailed[Cur])

(***************************************************************************)
(* C9 (two interleaved runs, ConcSpec)                                     *)
(***************************************************************************)
\* C9: whenever a run's save completes, the file holds exactly the set
\* that run wrote (what it loaded and its own new ids), whatever the
\* other run had written before: the last writer wins.
C9_LastWriterWins ==
    [][\A r \in Runs :
          (wrote'[r] /\ ~wrote[r])
             => PersistedIds(store') = loaded[r] \cup Range(new_ids[r])]_vars

\* Both runs have ended notified, one posting is in both emails, and an
\* id that one run wrote is no longer in the file.
C9_Witness ==
    /\ outcome[1] = "notified"
    /\ outcome[2] = "notified"
    /\ Range(emailed[1]) \cap Range(emailed[2]) # {}
    /\ \E r \in Runs : ~(notified[r] \subseteq PersistedIds(store))

(***************************************************************************)
(* C10 (ExtractSpec)                                                       *)
(***************************************************************************)
Letters ==
    {"a", "b", "c", "d", "e", "f", "g", "h", "i", "j", "k", "l", "m",
     "n", "o", "p", "q", "r", "s", "t", "u", "v", "w", "x", "y", "z",
     "A", "B", "C", "D", "E", "F", "G", "H", "I", "J", "K", "L", "M",
     "N", "O", "P", "Q", "R", "S", "T", "U", "V", "W", "X", "Y", "Z"}

\* A letter followed by a digit: a token of the form prefix + digits.
HasToken(u) ==
    \E i \in 1..Len(u) : /\ i + 1 <= Len(u)
                         /\ u[i] \in Letters
                         /\ u[i + 1] \in Digits

\* C10: for a URL that holds a letter-prefix + digits token, the id of
\* the URL and the id of the URL with "-1?foo=bar" appended are the same.
C10_SuffixInvariant ==
    (job_id # None /\ HasToken(url)) => job_id = job_id_suffixed

\* A URL with a token that the pattern does not match (the fallback
\* decides), from which the fallback strips something.
C10_Witness ==
    /\ job_id # None
    /\ HasToken(url)
    /\ re_search(url) = None
    /\ job_id # url
    /\ job_id # <<>>
    /\ job_id = job_id_suffixed

(***************************************************************************)
(* C11 (ExtractSpec)                                                       *)
(***************************************************************************)
\* s is letters followed by digits, at least one of each.
IsToken(s) ==
    \E k \in 1..Len(s) :
        /\ k < Len(s)
        /\ \A i \in 1..k : s[i] \in Letters
        /\ \A i \in (k + 1)..Len(s) : s[i] \in Digits

\* s is a piece of u.
Occurs(s, u) == \E i \in 1..(Len(u) + 1) : SubSeq(u, i, i + Len(s) - 1) = s

\* "JR" and a digit stand at position i of u.
JRAt(u, i) ==
    i + 2 <= Len(u) /\ u[i] = "J" /\ u[i + 1] = "R" /\ u[i + 2] \in Digits

\* C11 (as stated): for a URL that holds a token of the form alphabetic
\* prefix + digits, the id is such a token of the URL.
C11_ReturnsToken ==
    (job_id # None /\ HasToken(url))
        => IsToken(job_id) /\ Occurs(job_id, url)

\* C11 (amended): for a URL that holds "JR" followed by a digit, the id is
\* the leftmost such "JR" with all the digits that follow it: it ends
\* where the URL ends or a non-digit follows, and holds no "-" or "?".
C11_ReturnsJRToken ==
    (job_id # None /\ \E i \in 1..Len(url) : JRAt(url, i))
        => \E i \in 1..Len(url) :
              /\ JRAt(url, i)
              /\ \A k \in 1..(i - 1) : ~JRAt(url, k)
              /\ Len(job_id) >= 3
              /\ job_id = SubSeq(url, i, i + Len(job_id) - 1)
              /\ \A k \in 3..Len(job_id) : job_id[k] \in Digits
              /\ \/ i + Len(job_id) - 1 = Len(url)
                 \/ url[i + Len(job_id)] \notin Digits
              /\ "-" \notin Range(job_id)
              /\ "?" \notin Range(job_id)

\* A JR token of two digits with something after it.
C11_Witness ==
    /\ job_id = <<"J", "R", "1", "1">>
    /\ Len(url) > Len(job_id)
    /\ url[Len(url)] \in {"-", "?"}

(***************************************************************************)
(* C12 (ExtractSpec)                                                       *)
(***************************************************************************)
\* What precedes the last c of s, all of s when it holds no c.
BeforeLast(s, c) ==
    IF \E i \in 1..Len(s) : s[i] = c
    THEN SubSeq(s, 1, (CHOOSE k \in 1..Len(s) :
                          s[k] = c /\ \A n \in (k + 1)..Len(s) : s[n] # c) - 1)
    ELSE s

\* What follows the last c of s, all of s when it holds no c.
AfterLast(s, c) ==
    IF \E i \in 1..Len(s) : s[i] = c
    THEN SubSeq(s, (CHOOSE k \in 1..Len(s) :
                       s[k] = c /\ \A n \in (k + 1)..Len(s) : s[n] # c) + 1,
                Len(s))
    ELSE s

\* What precedes the first c of s, all of s when it holds no c.
BeforeFirst(s, c) ==
    IF \E i \in 1..Len(s) : s[i] = c
    THEN SubSeq(s, 1, (CHOOSE k \in 1..Len(s) :
                          s[k] = c /\ \A n \in 1..(k - 1) : s[n] # c) - 1)
    ELSE s

\* C12: for a URL without a token, the id is the text after the last "_",
\* cut at the first "?", with only the last "-"-delimited piece removed;
\* and "x_senior-engineer-2" and "x_senior-manager-2" get different ids.
C12_FallbackStripsTrailingSuffix ==
    (job_id # None /\ ~HasToken(url))
        => /\ job_id = BeforeLast(BeforeFirst(AfterLast(url, "_"), "?"), "-")
           /\ url = SeniorEngineerUrl
                 => job_id # extract_job_id(SeniorManagerUrl)

(***************************************************************************)
(* C13                                                                     *)
(***************************************************************************)
\* The three branches in which main returns: no postings, no new
\* postings, new postings notified and recorded.
BranchesReturn ==
    \A r \in Runs :
        /\ (pc[r] # "idle" /\ outcome[r] # "fetch_error" /\ jobs[r] = <<>>)
              => pc[r] = "done"
        /\ (HasLoaded(r) /\ NewOf(jobs[r], loaded[r]) = <<>>)
              => pc[r] = "done"
        /\ (SendCompleted(r) /\ wrote[r]) => pc[r] = "done"

\* C13 (as stated): a run has failed only when get_today_jobs or
\* send_email raised, and in each of the three branches it has returned.
\* Stated for the runs whose load_notified_ids returned, so that what
\* refutes it is not the failure that C7 is about.
C13_FailsOnlyOnFetchOrSend ==
    /\ BranchesReturn
    /\ \A r \in Runs :
          (pc[r] = "failed" /\ outcome[r] # "load_error")
             => outcome[r] \in {"fetch_error", "send_error"}

\* C13 (amended): a run has failed only when get_today_jobs raised,
\* load_notified_ids raised (on a file it does not handle), send_email
\* raised, or save_notified_ids raised after a completed send; in each of
\* the three branches it has returned.
C13_FailsOnlyWhenAStepRaises ==
    /\ BranchesReturn
    /\ \A r \in Runs :
          pc[r] = "failed"
             => \/ outcome[r] = "fetch_error" /\ jobs[r] = <<>>
                \/ /\ outcome[r] = "load_error"
                   /\ r = Cur => load_notified_ids(storeBefore).raised # "none"
                \/ /\ outcome[r] = "send_error"
                   /\ sendCalls[r] # <<>>
                   /\ ~SendCompleted(r)
                \/ /\ outcome[r] = "save_error"
                   /\ SendCompleted(r)
                   /\ ~wrote[r]

\* A run whose save raised, then a run that returned with nothing new.
C13_Witness ==
    /\ pc[Prev] = "failed"
    /\ outcome[Prev] = "save_error"
    /\ pc[Cur] = "done"
    /\ outcome[Cur] = "no_new_jobs"

(***************************************************************************)
(* C14 (FetchSpec)                                                         *)
(***************************************************************************)
\* The label holds the word today in any mix of upper and lower case.
IsTodayLabel(l) ==
    \E i \in 1..Len(l) :
        /\ i + 4 <= Len(l)
        /\ l[i] \in {"t", "T"}
        /\ l[i + 1] \in {"o", "O"}
        /\ l[i + 2] \in {"d", "D"}
        /\ l[i + 3] \in {"a", "A"}
        /\ l[i + 4] \in {"y", "Y"}

\* The number of (title, label) pairs of the page.
PairCount ==
    IF Len(title_elements) <= Len(posted_elements)
    THEN Len(title_elements)
    ELSE Len(posted_elements)

\* The pairs before the first pair whose label is not a today label.
TodayPrefix ==
    IF \E i \in 1..PairCount : ~IsTodayLabel(posted_elements[i])
    THEN (CHOOSE i \in 1..PairCount :
             /\ ~IsTodayLabel(posted_elements[i])
             /\ \A k \in 1..(i - 1) : IsTodayLabel(posted_elements[k])) - 1
    ELSE PairCount

\* C14: get_today_jobs returns one posting for each pair before the first
\* pair whose label is not a today label, in page order, and nothing at
\* or after that pair.
C14_StopsAtFirstNonToday ==
    today_jobs.returned
        => /\ Len(today_jobs.jobs) = TodayPrefix
           /\ \A i \in 1..TodayPrefix :
                 /\ today_jobs.jobs[i].url = title_elements[i].href
                 /\ str_strip(title_elements[i].text) = today_jobs.jobs[i].title
                 /\ IsTodayLabel(today_jobs.jobs[i].posted)
                 /\ str_in(today_jobs.jobs[i].posted, posted_elements[i])
           /\ (PairCount > 0 /\ ~IsTodayLabel(posted_elements[1]))
                 => today_jobs.jobs = <<>>

\* A today label after the first label that is not one: one posting
\* returned, the later one left out.
C14_Witness ==
    /\ today_jobs.returned
    /\ Len(today_jobs.jobs) = 1
    /\ PairCount = 3
    /\ ~IsTodayLabel(posted_elements[2])
    /\ IsTodayLabel(posted_elements[3])

(***************************************************************************)
(* C15 (RoundTripSpec)                                                     *)
(***************************************************************************)
\* The file is one object whose field "notified" lists exactly S, each id
\* once.
HoldsList(f, S) ==
    /\ f.kind = "object"
    /\ Range(f.list) = S
    /\ Len(f.list) = Cardinality(S)

\* C15 as stated: after save_notified_ids(S) has returned, the file holds
\* S as its "notified" list and load_notified_ids() returns S.
C15_RoundTrip ==
    (save_raised = "none" /\ load_result.returned)
        => /\ HoldsList(store, save_ids)
           /\ load_result.raised = "none"
           /\ load_result.ids = save_ids

\* C15 as it holds: after save_notified_ids(S) has returned the file holds
\* S as its "notified" list, and load_notified_ids() returns S when the
\* file can be opened for reading; when it cannot, the load returns the
\* empty set.
C15_RoundTripWhenReadable ==
    /\ save_raised = "none" => HoldsList(store, save_ids)
    /\ (save_raised = "none" /\ load_result.returned)
          => /\ load_result.raised = "none"
             /\ load_result.ids = (IF store.readable THEN save_ids ELSE {})

\* A save of two ids over a file that was not an object, loaded back.
C15_Witness ==
    /\ save_raised = "none"
    /\ load_result.returned
    /\ storeBefore.kind \in {"malformed", "nonobject", "badvalue"}
    /\ Cardinality(save_ids) = 2
    /\ load_result.ids = save_ids

(***************************************************************************)
(* C16 (FreshSpec)                                                         *)
(***************************************************************************)
\* C16: from a store without ids, every id in the persisted store is the
\* id of a posting of an email that had been sent successfully by the time
\* the id was written.
C16_StoredWasEmailed == PersistedIds(store) \subseteq everEmailed

\* Both ids are in the store, one of them written by a run that did not
\* email it itself: it loaded it from the store another run had written.
C16_Witness ==
    /\ PersistedIds(store) = {JR1, JR2}
    /\ wrote[last]
    /\ Cardinality(IdsOf(emailed[last])) = 1
    /\ loaded[last] # {}

(***************************************************************************)
(* C17 (Spec)                                                              *)
(***************************************************************************)
\* C17: the list a run passes to send_email holds at most one posting for
\* each id.
C17_OnePostingPerId ==
    \A r \in Runs : \A c \in 1..Len(sendCalls[r]) :
        \A i, j \in 1..Len(sendCalls[r][c]) :
            JobIdOf(sendCalls[r][c][i]) = JobIdOf(sendCalls[r][c][j]) => i = j

====
